---- MODULE Spec2Model ----
(***************************************************************************)
(* Model of the request/retry/error-mapping core of iron_go3               *)
(* (src/api/api.go): URL.Req, URL.Request, ResponseAsError, closeResponse, *)
(* and of mq.ErrQueueNotFound (src/mq/mq.go).                              *)
(*                                                                         *)
(* One call of Req is a sequence of steps: ReqCall (marshal the payload,   *)
(* build the request, tries := 0), one DoError/DoResponse step per         *)
(* iteration of the retry loop (the outcome of http.DefaultClient.Do is    *)
(* the environment's choice), AfterLoop (ResponseAsError on the final      *)
(* response) and ReqReturn (the rest of Req with its deferred              *)
(* closeResponse).                                                         *)
(***************************************************************************)
EXTENDS Integers, Sequences, FiniteSets, TLC

VARIABLES
    pc,         \* position of the caller: "idle", "loop", "afterloop", "returned", "done", "panic"
    calls,      \* number of Req calls started so far
    outGiven,   \* whether the call's out argument is non-nil
    outVal,     \* contents of the out target (a JSON object as a set of <<key, value>>)
    outBefore,  \* history: the contents of the out target when the call started
    tries,      \* the loop counter of Request
    response,   \* Request's named result: index into responses, 0 for a nil *http.Response
    err,        \* Request's named result err
    responses,  \* every http.Response the call obtained, in order, with its body stream
    attempts,   \* history: the outcome of every http.DefaultClient.Do of the call
    sleeps,     \* history: every time.Sleep of the call, as [attempt |-> the 0-based index
                \* of the attempt it follows, ms |-> its duration in milliseconds]
    retErr,     \* the error Req returned (meaningful when pc = "done")
    op,         \* the operation the caller runs: "Req" for a direct call, or the mq method
    reqIn,      \* the payload of the operation's request: [messages, reservation_id]
    queries,    \* number of Req calls the running mq operation has issued
    opResult,   \* what the mq operation returned (meaningful when pc = "opdone")
    m,          \* the caller's Message value: [Id, ReservationId]
    srv,        \* server side: number of the message's current reservation id
    pollN,      \* the argument n of MessageSubscribersPollN
    pollErrAt,  \* history: the first query of the poll that returned an error (0: none)
    pollErr,    \* history: the error that query returned
    touches,    \* history: the touch operations completed so far
    args        \* history: the bodies the running PushStrings was called with

reqVars == <<outGiven, outVal, outBefore, tries, response, err, responses, attempts, sleeps, retErr>>

mqVars == <<op, reqIn, queries, opResult, m, srv, pollN, pollErrAt, pollErr, touches, args>>

vars == <<pc, calls, reqVars, mqVars>>

----------------------------------------------------------------------------
(* Bounds and program constants *)

MaxCalls == 2

MaxRequestRetries == 5

StatusOK == 200

StatusCreated == 201

StatusNotFound == 404

StatusServiceUnavailable == 503

----------------------------------------------------------------------------
(* Errors.  Every error value is a record so that values stay comparable:   *)
(* kind "nil" is Go's nil error, "resErr" is api.resErr, the others are     *)
(* transport or encoding/json errors.  response is the index of the         *)
(* response a resErr carries (0 otherwise).                                 *)

NilErr == [kind |-> "nil", error |-> "", response |-> 0]

EOFErr == [kind |-> "EOF", error |-> "EOF", response |-> 0]

NetErr == [kind |-> "net", error |-> "dial tcp: connection refused", response |-> 0]

MarshalErr == [kind |-> "json", error |-> "json: unsupported type", response |-> 0]

JSONErr(msg) == [kind |-> "json", error |-> msg, response |-> 0]

\* resErr{response: response, error: msg}
resErr(idx, msg) == [kind |-> "resErr", error |-> msg, response |-> idx]

\* The errors http.DefaultClient.Do can fail with.
TransportErrors == {EOFErr, NetErr}

----------------------------------------------------------------------------
(* HTTP responses *)

Statuses == {StatusOK, StatusCreated, StatusNotFound, StatusServiceUnavailable}

\* response.Status: the status line the server sent for the code.
StatusLine(code) ==
    CASE code = 200 -> "200 OK"
      [] code = 201 -> "201 Created"
      [] code = 404 -> "404 Not Found"
      [] code = 503 -> "503 Service Unavailable"

BodyQueueNotFound == "{\"msg\":\"Queue not found\"}"

BodyNotEmpty == "{\"msg\":\"Queue not empty\"}"

BodyEmptyMsg == "{\"msg\":\"\"}"

BodyIds == "{\"ids\":[\"m1\"]}\n"

BodyHtml == "<html>"

BodyNone == ""

BodyTexts == {BodyQueueNotFound, BodyNotEmpty, BodyEmptyMsg, BodyIds, BodyHtml, BodyNone}

\* Bodies a 503 answer comes with (a proxy's page, or the API's JSON).
UnavailableTexts == {BodyHtml, BodyEmptyMsg}

\* A JSON string value / a JSON list of strings.
JStr(s) == [t |-> "str", s |-> s, l |-> <<>>]

JList(l) == [t |-> "list", s |-> "", l |-> l]

\* The reservation ids the server issues: "r1", "r2", ...
ResId(n) == "r" \o ToString(n)

\* The texts the queue service answers with. A message is written by its id
\* and a subscriber by its status, the one field of each that the client's
\* code looks at.
Quote(x) == "\"" \o x \o "\""

EncodeElem(key, x) ==
    CASE key = "ids" -> Quote(x)
      [] key = "messages" -> "{\"id\":" \o Quote(x) \o "}"
      [] key = "subscribers" -> "{\"status\":" \o Quote(x) \o "}"

RECURSIVE EncodeElems(_, _)
EncodeElems(key, l) ==
    IF l = <<>> THEN ""
    ELSE IF Len(l) = 1 THEN EncodeElem(key, l[1])
    ELSE EncodeElem(key, l[1]) \o "," \o EncodeElems(key, Tail(l))

\* {"<key>":[...]}
ReplyText(key, l) == "{" \o Quote(key) \o ":[" \o EncodeElems(key, l) \o "]}"

\* {"reservation_id":"<id>"}
TouchText(id) == "{\"reservation_id\":" \o Quote(id) \o "}"

BodyBadReservation == "{\"msg\":\"Reservation has timed out\"}"

\* Bounds of the service's answers: list length, reservation numbers.
MaxList == 2

MaxRes == MaxCalls + 2

Lists(S) == UNION {[1..k -> S] : k \in 0..MaxList}

ReplyKeys == {"ids", "messages", "subscribers"}

\* The values a list under key can hold.
ElemsOf(key) ==
    CASE key = "ids" -> {"id-a", "id-b"}
      [] key = "messages" -> {"m1", "m2"}
      [] key = "subscribers" -> {"queued", "deleted"}

\* Every list answer with its text, and every touch answer with its text.
ReplyTable ==
    UNION {{[text |-> ReplyText(key, l), key |-> key, l |-> l] : l \in Lists(ElemsOf(key))} :
              key \in ReplyKeys}

TouchTable == {[text |-> TouchText(ResId(n)), id |-> ResId(n)] : n \in 1..MaxRes}

\* encoding/json on a text the service answers with: the object whose
\* encoding the text is.
DecodeReply(text) ==
    IF \E e \in ReplyTable : e.text = text
    THEN LET e == CHOOSE x \in ReplyTable : x.text = text
         IN [ok |-> TRUE, obj |-> {<<e.key, JList(e.l)>>}, err |-> "", end |-> Len(text)]
    ELSE IF \E e \in TouchTable : e.text = text
    THEN LET e == CHOOSE x \in TouchTable : x.text = text
         IN [ok |-> TRUE, obj |-> {<<"reservation_id", JStr(e.id)>>}, err |-> "", end |-> Len(text)]
    ELSE IF text = BodyBadReservation
    THEN [ok |-> TRUE, obj |-> {<<"msg", JStr("Reservation has timed out")>>}, err |-> "", end |-> Len(text)]
    ELSE [ok |-> FALSE, obj |-> {}, err |-> "unexpected end of JSON input", end |-> Len(text)]

\* encoding/json on the body texts of the model: ok, the decoded object as a
\* set of <<key, value>>, the error text, and the offset where the first JSON
\* value ends (where a syntax error is found, for an invalid text).
JSONDecode(text) ==
    CASE text = BodyQueueNotFound ->
            [ok |-> TRUE, obj |-> {<<"msg", JStr("Queue not found")>>}, err |-> "", end |-> Len(text)]
      [] text = BodyNotEmpty ->
            [ok |-> TRUE, obj |-> {<<"msg", JStr("Queue not empty")>>}, err |-> "", end |-> Len(text)]
      [] text = BodyEmptyMsg ->
            [ok |-> TRUE, obj |-> {<<"msg", JStr("")>>}, err |-> "", end |-> Len(text)]
      [] text = BodyIds ->
            [ok |-> TRUE, obj |-> {<<"ids", JList(<<"m1">>)>>}, err |-> "", end |-> Len(text) - 1]
      [] text = BodyHtml ->
            [ok |-> FALSE, obj |-> {}, err |-> "invalid character '<' looking for beginning of value", end |-> 1]
      [] text = BodyNone ->
            [ok |-> FALSE, obj |-> {}, err |-> "EOF", end |-> 0]
      [] OTHER -> DecodeReply(text)

HasKey(obj, k) == \E p \in obj : p[1] = k

Lookup(obj, k) == (CHOOSE p \in obj : p[1] = k)[2]

\* Decoding an object into a Go map target: decoded keys overwrite, others stay.
MergeInto(target, obj) == {p \in target : ~HasKey(obj, p[1])} \cup obj

\* (mutation of Sprint: operands separated by spaces, as fmt.Sprintln does)
Sprint_Spaced(a, b, v) == a \o " " \o b \o " " \o v.s

\* fmt.Sprint(a, b, c) with a and b strings: a space is added between two
\* operands only when neither is a string, so none is added here; a string
\* operand is written as it is.
Sprint(a, b, v) == a \o b \o v.s

----------------------------------------------------------------------------
(* Response bodies as streams: text, read offset, closed flag *)

NewBody(text) == [text |-> text, pos |-> 0, closed |-> FALSE]

NewResponse(code, text) == [StatusCode |-> code, Body |-> NewBody(text)]

\* ioutil.ReadAll / io.Copy(ioutil.Discard, ...): reads to the end; a read on a
\* closed body fails and reads nothing.
ReadAll(b) == IF b.closed THEN b ELSE [b EXCEPT !.pos = Len(b.text)]

\* Offsets a json.Decoder may have consumed when Decode returns: it reads the
\* stream in chunks, at least to the end of the value (or to the error).
DecodeReads(b) == {k \in 0..Len(b.text) : k >= JSONDecode(b.text).end}

\* response.Body.Close()
Close(b) == [b EXCEPT !.closed = TRUE]

\* (mutation of closeResponse: closes without reading the rest)
closeResponse_NoRead(b) == Close(b)

\* closeResponse: read the entire body, then close it.
closeResponse(b) == Close(ReadAll(b))

Drained(b) == b.pos = Len(b.text) /\ b.closed

----------------------------------------------------------------------------
(* ResponseAsError: the error the response r (stored at index idx) maps to *)

\* (mutation of ResponseAsError: 201 Created counts as success too)
ResponseAsError_Created(r, idx) ==
    IF r.StatusCode = StatusOK \/ r.StatusCode = StatusCreated THEN NilErr
    ELSE LET d == JSONDecode(r.Body.text) IN
         IF ~d.ok THEN resErr(idx, Sprint(StatusLine(r.StatusCode), ": ", JStr(d.err)))
         ELSE IF HasKey(d.obj, "msg")
              THEN resErr(idx, Sprint(StatusLine(r.StatusCode), ": ", Lookup(d.obj, "msg")))
              ELSE resErr(idx, StatusLine(r.StatusCode) \o ": Unknown API Response")

ResponseAsError(r, idx) ==
    IF r.StatusCode = StatusOK THEN NilErr
    ELSE LET d == JSONDecode(r.Body.text) IN
         IF ~d.ok THEN resErr(idx, Sprint(StatusLine(r.StatusCode), ": ", JStr(d.err)))
         ELSE IF HasKey(d.obj, "msg")
              THEN resErr(idx, Sprint(StatusLine(r.StatusCode), ": ", Lookup(d.obj, "msg")))
              ELSE resErr(idx, StatusLine(r.StatusCode) \o ": Unknown API Response")

\* The body of r after ResponseAsError: untouched for a 200, otherwise decoded
\* from (up to offset k) and then closed by the deferred closeResponse.
ResponseAsErrorBody(r, k) ==
    IF r.StatusCode = StatusOK THEN r.Body
    ELSE closeResponse([r.Body EXCEPT !.pos = k])

\* mq.ErrQueueNotFound
ErrQueueNotFound(e) == e.error = "404 Not Found: Queue not found"

----------------------------------------------------------------------------
(* The retry loop of Request *)

\* (mutation of LoopCond: one iteration too many)
LoopCond_OneMore(t) == t <= MaxRequestRetries + 1

\* for tries := 0; tries <= MaxRequestRetries; tries++
LoopCond(t) == t <= MaxRequestRetries

\* (mutation of Backoff: the square taken before the factor 10)
Backoff_TimesTen(t) == (t + 1) * (t + 1) * 10

\* delay := (tries + 1) * 10; time.Sleep(time.Duration(delay*delay) * time.Millisecond)
Backoff(t) == LET delay == (t + 1) * 10 IN delay * delay

\* (mutation of IsEOF: every transport error is retried)
IsEOF_AnyError(e) == e # NilErr

\* err == io.EOF
IsEOF(e) == e = EOFErr

\* (mutation of IsUnavailable: every error status is retried)
IsUnavailable_AnyFailure(r) == r.StatusCode >= 400

\* response.StatusCode == http.StatusServiceUnavailable
IsUnavailable(r) == r.StatusCode = StatusServiceUnavailable

\* (mutation of FirstTry: the counter is not reset, as a package-level one)
FirstTry_Kept == tries

\* tries := 0
FirstTry == 0

\* The loop condition with the counter at t: the body, or the code after the loop.
LoopAt(t) == IF LoopCond(t) THEN "loop" ELSE "afterloop"

\* continue: tries++ and the loop condition
Continue == LoopAt(tries + 1)

\* The request payload of an operation that sends neither messages nor a
\* reservation id.
NoPayload == [messages |-> <<>>, reservation_id |-> ""]

\* The zero results of an mq operation: "" for an id, a nil slice, a nil
\* error; a *Message is <<>> when nil and <<message>> otherwise.
NoResult == [id |-> "", ids |-> <<>>, message |-> <<>>, subs |-> <<>>, err |-> NilErr]

\* What the caller's out target holds when it is passed to Req: a fresh value,
\* or one that was filled before.
OutTargets == {{}, {<<"ids", JList(<<"m0">>)>>, <<"msg", JStr("old")>>}}

\* (mutation of ReturnsEarly: only a transport error returns before the decoding)
ReturnsEarly_TransportOnly(e) == e # NilErr /\ e.kind # "resErr"

\* if err != nil { return err }
ReturnsEarly(e) == e # NilErr

\* The JSON keys the out target of the running operation has a field for: a
\* map takes every key; PushMessages' out has IDs and Msg, LongPoll's has
\* Messages, MessageSubscribers' has Subscribers, TouchMessageFor's is a Message.
OutFields ==
    CASE op = "Req" -> {"msg", "ids", "messages", "subscribers", "reservation_id"}
      [] op \in {"PushMessage", "PushStrings", "PushString"} -> {"ids", "msg"}
      [] op = "Reserve" -> {"messages"}
      [] op \in {"Touch", "TouchMessage"} -> {"reservation_id"}
      [] op = "Poll" -> {"subscribers"}

\* json Decode of obj into the out target: keys the target has no field for
\* are skipped.
DecodeInto(target, obj) == MergeInto(target, {p \in obj : p[1] \in OutFields})

Init ==
    /\ pc = "idle"
    /\ calls = 0
    /\ outGiven = FALSE
    /\ outVal = {}
    /\ outBefore = {}
    /\ tries = 0
    /\ response = 0
    /\ err = NilErr
    /\ responses = <<>>
    /\ attempts = <<>>
    /\ sleeps = <<>>
    /\ retErr = NilErr
    /\ op = "Req"
    /\ reqIn = NoPayload
    /\ queries = 0
    /\ opResult = NoResult
    /\ m = [Id |-> "m1", ReservationId |-> ResId(1)]
    /\ srv = 1
    /\ pollN = 0
    /\ pollErrAt = 0
    /\ pollErr = NilErr
    /\ touches = <<>>
    /\ args = <<>>

\* Req up to the loop of Request: marshal in (an unmarshalable payload returns
\* the error before any attempt), read the body, build the request, tries := 0.
StartReq(in, og, o) ==
    /\ outGiven' = og
    /\ outVal' = o
    /\ outBefore' = o
    /\ IF in = "unmarshalable"
       THEN pc' = "done" /\ retErr' = MarshalErr
       ELSE pc' = LoopAt(FirstTry) /\ retErr' = NilErr
    /\ tries' = FirstTry
    /\ response' = 0
    /\ err' = NilErr
    /\ responses' = <<>>
    /\ attempts' = <<>>
    /\ sleeps' = <<>>

\* A direct call of Req, with any payload and any out target.
ReqCall ==
    /\ pc \in {"idle", "done"}
    /\ calls < MaxCalls
    /\ calls' = calls + 1
    /\ \E in \in {"nil", "payload", "unmarshalable"}, og \in BOOLEAN :
       \E o \in (IF og THEN OutTargets ELSE {{}}) :
          StartReq(in, og, o)
    /\ UNCHANGED mqVars

\* One iteration in which http.DefaultClient.Do fails with e: response is nil.
DoErrorWith(e) ==
    /\ pc = "loop"
    /\ err' = e
    /\ attempts' = Append(attempts, [err |-> e, resp |-> 0])
    /\ IF IsEOF(e)
       THEN tries' = tries + 1 /\ pc' = Continue
       ELSE tries' = tries /\ pc' = "returned"
    /\ response' = 0
    /\ UNCHANGED <<calls, outGiven, outVal, outBefore, responses, sleeps, retErr>>

DoError ==
    /\ \E e \in TransportErrors : DoErrorWith(e)
    /\ UNCHANGED mqVars

\* One iteration in which http.DefaultClient.Do obtains the response with
\* status code and body text.
DoResponseWith(code, text) ==
    /\ pc = "loop"
    /\ LET r == NewResponse(code, text) IN
          /\ responses' = Append(responses, r)
          /\ response' = Len(responses) + 1
          /\ attempts' = Append(attempts, [err |-> NilErr, resp |-> Len(responses) + 1])
          /\ IF IsUnavailable(r)
             THEN /\ sleeps' = Append(sleeps, [attempt |-> Len(attempts), ms |-> Backoff(tries)])
                  /\ tries' = tries + 1
                  /\ pc' = Continue
             ELSE /\ sleeps' = sleeps
                  /\ tries' = tries
                  /\ pc' = "afterloop"
    /\ err' = NilErr
    /\ UNCHANGED <<calls, outGiven, outVal, outBefore, retErr>>

DoResponse ==
    /\ \E code \in Statuses :
       \E text \in (IF code = StatusServiceUnavailable THEN UnavailableTexts ELSE BodyTexts) :
          DoResponseWith(code, text)
    /\ UNCHANGED mqVars

\* After the loop: err = ResponseAsError(response); a nil response is
\* dereferenced there, which panics.
AfterLoop ==
    /\ pc = "afterloop"
    /\ IF response = 0
       THEN /\ pc' = "panic"
            /\ UNCHANGED <<err, responses>>
       ELSE LET r == responses[response] IN
            /\ pc' = "returned"
            /\ err' = ResponseAsError(r, response)
            /\ \E k \in DecodeReads(r.Body) :
                  responses' = [responses EXCEPT ![response].Body = ResponseAsErrorBody(r, k)]
    /\ UNCHANGED <<calls, outGiven, outVal, outBefore, tries, response, attempts, sleeps, retErr>>
    /\ UNCHANGED mqVars

\* Req after Request returned: deferred closeResponse when response is not
\* nil, the error returned as it is, otherwise the body decoded into out or
\* discarded.
ReqReturn ==
    /\ pc = "returned"
    /\ pc' = "done"
    /\ IF ReturnsEarly(err)
       THEN /\ retErr' = err
            /\ outVal' = outVal
            /\ responses' = IF response = 0 THEN responses
                            ELSE [responses EXCEPT ![response].Body = closeResponse(@)]
       ELSE LET b == responses[response].Body
                d == JSONDecode(b.text) IN
            IF outGiven
            THEN /\ retErr' = IF d.ok THEN NilErr ELSE JSONErr(d.err)
                 /\ outVal' = IF d.ok THEN DecodeInto(outVal, d.obj) ELSE outVal
                 /\ \E k \in DecodeReads(b) :
                       responses' = [responses EXCEPT ![response].Body =
                                        closeResponse([b EXCEPT !.pos = k])]
            ELSE /\ retErr' = NilErr
                 /\ outVal' = outVal
                 /\ responses' = [responses EXCEPT ![response].Body = closeResponse(ReadAll(b))]
    /\ UNCHANGED <<calls, outGiven, outBefore, tries, response, err, attempts, sleeps>>
    /\ UNCHANGED mqVars

Next == ReqCall \/ DoError \/ DoResponse \/ AfterLoop \/ ReqReturn

Spec == Init /\ [][Next]_vars

\* A call in progress keeps running: Do returns, the sleep ends, Req goes on.
FairSpec == Spec /\ WF_vars(DoError \/ DoResponse \/ AfterLoop \/ ReqReturn)

----------------------------------------------------------------------------
(* The executor variant that also accepts 201 (src/mq/mq_test.go, lines     *)
(* 279-407): Req, req and ResponseAsError of that copy of the api package.  *)
(* It runs on the same state; its steps are the V_ actions.                 *)

\* HTTPErrorDescriptions, for the status codes of the model.
HTTPErrorDescriptions(code) ==
    IF code = StatusNotFound
    THEN [found |-> TRUE, desc |-> "The resource, project, or endpoint being requested doesn't exist."]
    ELSE [found |-> FALSE, desc |-> ""]

\* ResponseAsError of the variant: 200 and 201 are success; a described
\* status gets its description; otherwise the body is decoded into a
\* DefaultResponseBody, whose Msg is "" when the key is absent.
V_ResponseAsError(r, idx) ==
    IF r.StatusCode = StatusOK \/ r.StatusCode = StatusCreated THEN NilErr
    ELSE IF HTTPErrorDescriptions(r.StatusCode).found
    THEN resErr(idx, StatusLine(r.StatusCode) \o ": " \o HTTPErrorDescriptions(r.StatusCode).desc)
    ELSE LET d == JSONDecode(r.Body.text)
             Msg == IF HasKey(d.obj, "msg") THEN Lookup(d.obj, "msg").s ELSE ""
         IN
         IF ~d.ok THEN resErr(idx, Sprint(StatusLine(r.StatusCode), ": ", JStr(d.err)))
         ELSE IF Msg # ""
              THEN resErr(idx, Sprint(StatusLine(r.StatusCode), ": ", JStr(Msg)))
              ELSE resErr(idx, StatusLine(r.StatusCode) \o ": Unknown API Response")

\* The body of r after the variant's ResponseAsError: untouched for a success
\* or a described status, otherwise decoded from; closed (not read to its end)
\* by the deferred Close for every non-success.
V_ResponseAsErrorBody(r, k) ==
    IF r.StatusCode = StatusOK \/ r.StatusCode = StatusCreated THEN r.Body
    ELSE IF HTTPErrorDescriptions(r.StatusCode).found THEN Close(r.Body)
    ELSE Close([r.Body EXCEPT !.pos = k])

\* Req of the variant up to the loop of req.
V_ReqCall ==
    /\ pc \in {"idle", "done"}
    /\ calls < MaxCalls
    /\ calls' = calls + 1
    /\ \E in \in {"nil", "payload", "unmarshalable"}, og \in BOOLEAN :
          /\ outGiven' = og
          /\ \E o \in (IF og THEN OutTargets ELSE {{}}) : outVal' = o /\ outBefore' = o
          /\ IF in = "unmarshalable"
             THEN pc' = "done" /\ retErr' = MarshalErr
             ELSE pc' = LoopAt(FirstTry) /\ retErr' = NilErr
    /\ tries' = FirstTry
    /\ response' = 0
    /\ err' = NilErr
    /\ responses' = <<>>
    /\ attempts' = <<>>
    /\ sleeps' = <<>>
    /\ UNCHANGED mqVars

\* One iteration of req in which HttpClient.Do fails: response is nil, so there
\* is no body to close; io.EOF continues, any other error returns nil, err.
V_DoError ==
    /\ pc = "loop"
    /\ \E e \in TransportErrors :
          /\ err' = e
          /\ attempts' = Append(attempts, [err |-> e, resp |-> 0])
          /\ IF e = EOFErr
             THEN tries' = tries + 1 /\ pc' = Continue
             ELSE tries' = tries /\ pc' = "returned"
    /\ response' = 0
    /\ UNCHANGED <<calls, outGiven, outVal, outBefore, responses, sleeps, retErr>>
    /\ UNCHANGED mqVars

\* One iteration of req in which HttpClient.Do obtains a response.
V_DoResponse ==
    /\ pc = "loop"
    /\ \E code \in Statuses :
       \E text \in (IF code = StatusServiceUnavailable THEN UnavailableTexts ELSE BodyTexts) :
          LET r == NewResponse(code, text) IN
          /\ responses' = Append(responses, r)
          /\ response' = Len(responses) + 1
          /\ attempts' = Append(attempts, [err |-> NilErr, resp |-> Len(responses) + 1])
          /\ IF r.StatusCode = StatusServiceUnavailable
             THEN /\ sleeps' = Append(sleeps, [attempt |-> Len(attempts), ms |-> Backoff(tries)])
                  /\ tries' = tries + 1
                  /\ pc' = Continue
             ELSE /\ sleeps' = sleeps
                  /\ tries' = tries
                  /\ pc' = "afterloop"
    /\ err' = NilErr
    /\ UNCHANGED <<calls, outGiven, outVal, outBefore, retErr>>
    /\ UNCHANGED mqVars

\* req after the loop: a nil response is dereferenced by ResponseAsError
\* (panic); a mapped error is returned as nil, err; a success as response, nil.
V_AfterLoop ==
    /\ pc = "afterloop"
    /\ IF response = 0
       THEN /\ pc' = "panic"
            /\ UNCHANGED <<err, response, responses>>
       ELSE LET r == responses[response]
                e == V_ResponseAsError(r, response) IN
            /\ pc' = "returned"
            /\ err' = e
            /\ response' = IF e # NilErr THEN 0 ELSE response
            /\ \E k \in DecodeReads(r.Body) :
                  responses' = [responses EXCEPT ![response].Body = V_ResponseAsErrorBody(r, k)]
    /\ UNCHANGED <<calls, outGiven, outVal, outBefore, tries, attempts, sleeps, retErr>>
    /\ UNCHANGED mqVars

\* Req of the variant after req returned: the deferred Close when response is
\* not nil, the decoding when err == nil and out != nil, then
\* io.Copy(ioutil.Discard, response.Body), which dereferences response whether
\* or not it is nil.
V_ReqReturn ==
    /\ pc = "returned"
    /\ IF response = 0
       THEN /\ pc' = "panic"
            /\ UNCHANGED <<outVal, responses, retErr>>
       ELSE LET b == responses[response].Body
                d == JSONDecode(b.text) IN
            /\ pc' = "done"
            /\ IF err = NilErr /\ outGiven
               THEN /\ retErr' = IF d.ok THEN NilErr ELSE JSONErr(d.err)
                    /\ outVal' = IF d.ok THEN MergeInto(outVal, d.obj) ELSE outVal
                    /\ \E k \in DecodeReads(b) :
                          responses' = [responses EXCEPT ![response].Body =
                                           Close(ReadAll([b EXCEPT !.pos = k]))]
               ELSE /\ retErr' = err
                    /\ outVal' = outVal
                    /\ responses' = [responses EXCEPT ![response].Body = Close(ReadAll(b))]
    /\ UNCHANGED <<calls, outGiven, outBefore, tries, response, err, attempts, sleeps>>
    /\ UNCHANGED mqVars

NextV == V_ReqCall \/ V_DoError \/ V_DoResponse \/ V_AfterLoop \/ V_ReqReturn

SpecV == Init /\ [][NextV]_vars

----------------------------------------------------------------------------
(* The queue client (mq.go): operations that issue requests through Req *)

\* Bounds: bodies pushed by one call, status queries of one poll, and failed
\* attempts (io.EOF or 503) the service lets one request go through.
MaxBodies == 2

MaxPolls == 3

MaxTransient == 1

Bodies == {"a", "b"}

\* The id a service that assigns one id per message gives the message with body b.
IdOf(b) == "id-" \o b

\* The fields of the operations' out targets, read after Req has returned;
\* a field no key was decoded into has its zero value.
ListField(out, key) == IF HasKey(out, key) THEN Lookup(out, key).l ELSE <<>>

StringField(out, key) == IF HasKey(out, key) THEN Lookup(out, key).s ELSE ""

\* An operation begins: its in payload is built, its results are zero, and
\* its first request goes to Req with a fresh out target.
CallOp(o, in, n, a) ==
    /\ pc \in {"idle", "opdone"}
    /\ calls < MaxCalls
    /\ calls' = calls + 1
    /\ op' = o
    /\ reqIn' = in
    /\ queries' = 1
    /\ opResult' = NoResult
    /\ pollN' = n
    /\ pollErrAt' = 0
    /\ pollErr' = NilErr
    /\ args' = a
    /\ StartReq("payload", TRUE, {})
    /\ UNCHANGED <<m, srv, touches>>

\* The operation returns res to its caller.
ReturnOp(res) ==
    /\ pc' = "opdone"
    /\ opResult' = res
    /\ UNCHANGED <<calls, reqVars, op, reqIn, queries, srv, pollN, pollErrAt, pollErr, args>>

\* (mutation of MessagesOf: the bodies in reverse order)
MessagesOf_Reversed(bodies) == [i \in 1..Len(bodies) |-> bodies[Len(bodies) + 1 - i]]

\* PushStrings: msgs[i] = Message{Body: body} for the i-th body.
MessagesOf(bodies) == [i \in 1..Len(bodies) |-> bodies[i]]

\* (mutation of ErrNoMessageId: no error)
ErrNoMessageId_Nil == NilErr

\* errors.New("didn't receive message ID for pushing message")
ErrNoMessageId ==
    [kind |-> "errors", error |-> "didn't receive message ID for pushing message", response |-> 0]

\* PushMessage(msg) -> PushMessages(msg) -> Req("POST", &in, &out)
PushMessageCall ==
    \E b \in Bodies : CallOp("PushMessage", [NoPayload EXCEPT !.messages = <<b>>], 0, <<>>)

PushMessageReturn ==
    /\ pc = "done"
    /\ op = "PushMessage"
    /\ LET ids == ListField(outVal, "ids") IN
          ReturnOp(IF retErr # NilErr THEN [NoResult EXCEPT !.err = retErr]
                   ELSE IF Len(ids) < 1 THEN [NoResult EXCEPT !.err = ErrNoMessageId]
                   ELSE [NoResult EXCEPT !.id = ids[1], !.err = retErr])
    /\ UNCHANGED <<m, touches>>

\* PushStrings(bodies...) -> PushMessages(msgs...) -> Req("POST", &in, &out)
PushStringsCall ==
    \E k \in 0..MaxBodies : \E bodies \in [1..k -> Bodies] :
        CallOp("PushStrings", [NoPayload EXCEPT !.messages = MessagesOf(bodies)], 0, bodies)

PushStringsReturn ==
    /\ pc = "done"
    /\ op = "PushStrings"
    /\ ReturnOp([NoResult EXCEPT !.ids = ListField(outVal, "ids"), !.err = retErr])
    /\ UNCHANGED <<m, touches>>

\* PushString(body) -> PushStrings(body) -> PushMessages(msgs...) -> Req("POST", &in, &out)
PushStringCall ==
    \E b \in Bodies :
        CallOp("PushString", [NoPayload EXCEPT !.messages = MessagesOf(<<b>>)], 0, <<>>)

\* PushString after PushStrings returned: the error if there is one, else
\* ids[0] with no test of len(ids); indexing an empty slice is a run-time
\* panic (index out of range).
PushStringReturn ==
    /\ pc = "done"
    /\ op = "PushString"
    /\ LET ids == ListField(outVal, "ids") IN
          IF retErr # NilErr
          THEN ReturnOp([NoResult EXCEPT !.err = retErr])
          ELSE IF Len(ids) = 0
          THEN /\ pc' = "panic"
               /\ UNCHANGED <<calls, reqVars, op, reqIn, queries, opResult, srv, pollN,
                              pollErrAt, pollErr, args>>
          ELSE ReturnOp([NoResult EXCEPT !.id = ids[1]])
    /\ UNCHANGED <<m, touches>>

\* (mutation of First: the last element)
First_Last(l) == l[Len(l)]

\* msgs[0]
First(l) == l[1]

\* Reserve() / Get() -> GetN(1) -> ReserveN(1) -> LongPoll(1, 60, 0, false)
\* -> Req("POST", &in, &out)
ReserveCall == CallOp("Reserve", NoPayload, 0, <<>>)

ReserveReturn ==
    /\ pc = "done"
    /\ op = "Reserve"
    /\ LET msgs == ListField(outVal, "messages") IN
          ReturnOp(IF Len(msgs) > 0
                   THEN [NoResult EXCEPT !.message = <<First(msgs)>>, !.err = retErr]
                   ELSE [NoResult EXCEPT !.err = retErr])
    /\ UNCHANGED <<m, touches>>

\* (mutation of Assigned: the Message keeps the id it had)
Assigned_Kept(old, new) == old

\* m.ReservationId = reservationId
Assigned(old, new) == new

\* m.Touch() -> m.TouchFor(0) -> q.TouchMessageFor(m.Id, m.ReservationId, 0)
\* -> Req("POST", in, out)
TouchCall == CallOp("Touch", [NoPayload EXCEPT !.reservation_id = m.ReservationId], 0, <<>>)

\* q.TouchMessage(msgId, reservationId) with a reservation id the caller
\* kept by itself: the first one issued, or the one the Message holds now.
TouchMessageCall ==
    \E id \in {ResId(1), m.ReservationId} :
        CallOp("TouchMessage", [NoPayload EXCEPT !.reservation_id = id], 0, <<>>)

\* How a completed touch ended: the service issued a new id, the service
\* refused the request, or no answer of the service could be used.
TouchOutcome ==
    IF retErr = NilErr THEN "ok"
    ELSE IF retErr.kind = "resErr" THEN "refused"
    ELSE "failed"

\* TouchMessageFor returns out.ReservationId and Req's error; TouchFor
\* stores the id in the Message before it returns the error.
TouchReturn ==
    /\ pc = "done"
    /\ op \in {"Touch", "TouchMessage"}
    /\ LET reservationId == StringField(outVal, "reservation_id") IN
          /\ ReturnOp([NoResult EXCEPT !.id = reservationId, !.err = retErr])
          /\ m' = IF op = "Touch"
                   THEN [m EXCEPT !.ReservationId = Assigned(m.ReservationId, reservationId)]
                   ELSE m
          /\ touches' = Append(touches, [op |-> op, sent |-> reqIn.reservation_id,
                                          got |-> reservationId, outcome |-> TouchOutcome])

\* (mutation of actualPushStatus: every list passes)
actualPushStatus_Always(subs) == TRUE

\* actualPushStatus: false when a subscriber's status is "queued"
actualPushStatus(subs) == \A i \in 1..Len(subs) : subs[i] # "queued"

\* MessageSubscribersPollN(msgId, n): the first MessageSubscribers(msgId)
\* -> Req("GET", nil, &out)
PollCall == \E n \in 0..MaxList : CallOp("Poll", NoPayload, n, <<>>)

\* The next MessageSubscribers query of the poll (after the 100 ms sleep).
PollQuery ==
    /\ queries < MaxPolls
    /\ queries' = queries + 1
    /\ StartReq("nil", TRUE, {})
    /\ UNCHANGED <<calls, op, reqIn, opResult, m, srv, pollN, touches, args>>

\* A query of the poll has returned. The result of the first is overwritten
\* by the loop's first query before it is looked at; a later one ends the
\* poll if it is an error, or if it reports n subscribers and none queued.
PollStep ==
    /\ pc = "done"
    /\ op = "Poll"
    /\ LET subs == ListField(outVal, "subscribers") IN
          /\ pollErrAt' = IF pollErrAt = 0 /\ retErr # NilErr THEN queries ELSE pollErrAt
          /\ pollErr' = IF pollErrAt = 0 /\ retErr # NilErr THEN retErr ELSE pollErr
          /\ IF queries = 1
             THEN PollQuery
             ELSE IF retErr # NilErr
             THEN /\ pc' = "opdone"
                  /\ opResult' = [NoResult EXCEPT !.subs = subs, !.err = retErr]
                  /\ UNCHANGED <<calls, reqVars, op, reqIn, queries, m, srv, pollN, touches, args>>
             ELSE IF Len(subs) >= pollN /\ actualPushStatus(subs)
             THEN /\ pc' = "opdone"
                  /\ opResult' = [NoResult EXCEPT !.subs = subs]
                  /\ UNCHANGED <<calls, reqVars, op, reqIn, queries, m, srv, pollN, touches, args>>
             ELSE PollQuery

----------------------------------------------------------------------------
(* The queue service and the network, as the client's requests meet them *)

RequestRunning == pc = "loop" /\ op # "Req"

\* An attempt fails in transport; io.EOF at most MaxTransient times a request.
MQ_DoError ==
    /\ RequestRunning
    /\ \E e \in TransportErrors :
          /\ e = EOFErr => tries < MaxTransient
          /\ DoErrorWith(e)
    /\ UNCHANGED mqVars

\* The service is unavailable, at most MaxTransient times a request.
MQ_Unavailable ==
    /\ RequestRunning
    /\ tries < MaxTransient
    /\ DoResponseWith(StatusServiceUnavailable, BodyHtml)
    /\ UNCHANGED mqVars

\* The queue does not exist (a touch is answered by MQ_Touch: the message it
\* names is reserved, so its queue exists).
MQ_NotFound ==
    /\ RequestRunning
    /\ op \notin {"Touch", "TouchMessage"}
    /\ DoResponseWith(StatusNotFound, BodyQueueNotFound)
    /\ UNCHANGED mqVars

\* What the service answers 200 with to a push, a reservation or a
\* status query: any list of ids, of messages, of subscribers.
RepliesWith(key) == {e.text : e \in {x \in ReplyTable : x.key = key}}

Replies ==
    CASE op \in {"PushMessage", "PushStrings", "PushString"} -> RepliesWith("ids")
      [] op = "Reserve" -> RepliesWith("messages")
      [] op = "Poll" -> RepliesWith("subscribers")
      [] OTHER -> {}

MQ_Reply ==
    /\ RequestRunning
    /\ \E text \in Replies : DoResponseWith(StatusOK, text)
    /\ UNCHANGED mqVars

\* A touch reaches the service: the current reservation id is replaced by a
\* fresh one, which is the answer; any other id is refused.
MQ_Touch ==
    /\ RequestRunning
    /\ op \in {"Touch", "TouchMessage"}
    /\ IF reqIn.reservation_id = ResId(srv)
       THEN /\ DoResponseWith(StatusOK, TouchText(ResId(srv + 1)))
            /\ srv' = srv + 1
       ELSE /\ DoResponseWith(StatusNotFound, BodyBadReservation)
            /\ srv' = srv
    /\ UNCHANGED <<op, reqIn, queries, opResult, m, pollN, pollErrAt, pollErr, touches, args>>

MQ_AfterLoop == op # "Req" /\ AfterLoop

MQ_ReqReturn == op # "Req" /\ ReqReturn

NextMQ ==
    \/ PushMessageCall \/ PushMessageReturn
    \/ PushStringsCall \/ PushStringsReturn
    \/ PushStringCall \/ PushStringReturn
    \/ ReserveCall \/ ReserveReturn
    \/ TouchCall \/ TouchMessageCall \/ TouchReturn
    \/ PollCall \/ PollStep
    \/ MQ_DoError \/ MQ_Unavailable \/ MQ_NotFound \/ MQ_Reply \/ MQ_Touch
    \/ MQ_AfterLoop \/ MQ_ReqReturn

SpecMQ == Init /\ [][NextMQ]_vars

----------------------------------------------------------------------------
(* Reading the history of a call *)

\* Request has returned to Req (or Req has returned to its caller).
RequestReturned == pc \in {"returned", "done"} /\ Len(attempts) > 0

\* Attempt i (1-based) obtained a response with status code.
GotStatus(i, code) ==
    /\ i \in 1..Len(attempts)
    /\ attempts[i].resp # 0
    /\ responses[attempts[i].resp].StatusCode = code

\* Attempt i obtained a response whose status is not 503.
GotOtherStatus(i) ==
    /\ i \in 1..Len(attempts)
    /\ attempts[i].resp # 0
    /\ responses[attempts[i].resp].StatusCode # 503

\* The first k attempts each received a 503.
FirstUnavailable(k) == \A i \in 1..k : GotStatus(i, 503)

SleepsIncrease == \A i \in 1..Len(sleeps), j \in 1..Len(sleeps) : i < j => sleeps[i].ms < sleeps[j].ms

\* The result of Request is the one the response of attempt i decides: that
\* response is returned, with a nil error exactly for a 200, and otherwise
\* with the mapped error that carries it.
OutcomeOf(i) ==
    /\ response = attempts[i].resp
    /\ (err = NilErr) <=> GotStatus(i, 200)
    /\ err # NilErr => err.kind = "resErr" /\ err.response = attempts[i].resp

----------------------------------------------------------------------------
(* C1: for every k in 0..5, when the first k attempts each receive a 503    *)
(* and attempt k+1 receives any other status, the call makes exactly k+1    *)
(* attempts and exactly k backoff sleeps of strictly increasing duration,   *)
(* none after the non-503 response, and its outcome is the one that         *)
(* response decides; [503, 503, 200] gives 3 attempts, 2 sleeps and the 200 *)
(* response with a nil error.                                               *)
C1_RetryUntilOtherStatus ==
    /\ \A k \in 0..MaxRequestRetries :
          (FirstUnavailable(k) /\ GotOtherStatus(k + 1)) =>
              /\ Len(attempts) = k + 1
              /\ Len(sleeps) = k
              /\ SleepsIncrease
              /\ pc \in {"afterloop", "returned", "done"}
              /\ RequestReturned => OutcomeOf(k + 1)
    /\ (RequestReturned /\ GotStatus(1, 503) /\ GotStatus(2, 503) /\ GotStatus(3, 200)) =>
          /\ Len(attempts) = 3
          /\ Len(sleeps) = 2
          /\ sleeps[1].ms < sleeps[2].ms
          /\ response = attempts[3].resp
          /\ err = NilErr

C1_Witness ==
    /\ pc = "done"
    /\ GotStatus(1, 503) /\ GotStatus(2, 503) /\ GotStatus(3, 200)
    /\ Len(sleeps) = 2
    /\ retErr = NilErr

\* k = 5: five 503 answers, then a 404 on the last permitted attempt.
C1_WitnessLastTry ==
    /\ pc = "returned"
    /\ FirstUnavailable(MaxRequestRetries)
    /\ GotStatus(MaxRequestRetries + 1, 404)

----------------------------------------------------------------------------
(* C2: when all six attempts of a call receive a 503, Request stops after   *)
(* exactly 6 attempts and returns the mapped error built from the sixth     *)
(* response: a resErr whose Response() is that response and whose message   *)
(* begins with the 503 status line; not a transport error.                  *)

\* What ResponseAsError can put after the status line.
ErrorTails ==
    {": " \o JSONDecode(t).err : t \in BodyTexts}
        \cup {": " \o Lookup(JSONDecode(t).obj, "msg").s :
                t \in {x \in BodyTexts : HasKey(JSONDecode(x).obj, "msg")}}
        \cup {": Unknown API Response"}

BeginsWith(str, prefix) == \E tail \in ErrorTails : str = prefix \o tail

C2_SixUnavailableMapped ==
    FirstUnavailable(MaxRequestRetries + 1) =>
        /\ Len(attempts) = MaxRequestRetries + 1
        /\ pc \in {"afterloop", "returned", "done"}
        /\ RequestReturned =>
              /\ err.kind = "resErr"
              /\ err.response = attempts[MaxRequestRetries + 1].resp
              /\ response = err.response
              /\ BeginsWith(err.error, "503 Service Unavailable")
        /\ pc = "done" => retErr = err

C2_Witness ==
    /\ pc = "done"
    /\ FirstUnavailable(6)
    /\ retErr.kind = "resErr"
    /\ retErr.response = 6

----------------------------------------------------------------------------
(* C3: whatever the attempts' outcomes, Req returns to its caller with an   *)
(* error value, non-nil whenever no attempt obtained a success response;    *)
(* in particular when the last permitted attempt ends with io.EOF the       *)
(* caller gets a non-nil error and the call does not crash.                 *)
C3_AlwaysReturnsAnError ==
    /\ pc # "panic"
    /\ (pc = "done" /\ ~\E i \in 1..Len(attempts) : GotStatus(i, 200)) => retErr # NilErr

----------------------------------------------------------------------------
(* C4: on every exit path of Req that obtained a final response (success    *)
(* with out decoded, success without out, decode failure of the success     *)
(* body, mapped error) the body of that response has been read to its end   *)
(* and closed when Req returns.                                             *)
C4_FinalBodyDrained ==
    (pc = "done" /\ response # 0) => Drained(responses[response].Body)

\* The path on which the decoder may stop short of the end of the body.
C4_Witness ==
    /\ pc = "done"
    /\ response # 0
    /\ GotStatus(Len(attempts), 200)
    /\ outGiven
    /\ retErr = NilErr
    /\ responses[response].Body.text = BodyIds
    /\ HasKey(outVal, "ids")

C4_WitnessDecodeFailure ==
    /\ pc = "done" /\ response # 0 /\ GotStatus(Len(attempts), 200)
    /\ outGiven /\ retErr.kind = "json"

C4_WitnessDiscard ==
    /\ pc = "done" /\ response # 0 /\ GotStatus(Len(attempts), 200)
    /\ ~outGiven /\ retErr = NilErr

C4_WitnessMapped ==
    /\ pc = "done" /\ response # 0 /\ retErr.kind = "resErr"

----------------------------------------------------------------------------
(* C5 as stated: the sleep after a 503 on attempt index i (0-based) lasts   *)
(* (i+1)^2 * 10 ms: 10, 40, 90, 160, 250 ms for i = 0..4.                   *)
C5_SleepTenTimesSquare ==
    \A j \in 1..Len(sleeps) :
        sleeps[j].ms = (sleeps[j].attempt + 1) * (sleeps[j].attempt + 1) * 10

(* C5 as amended: the sleep after a 503 on attempt index i (0-based) lasts  *)
(* ((i+1) * 10)^2 = (i+1)^2 * 100 ms: 100, 400, 900, 1600, 2500 ms for      *)
(* i = 0..4; every sleep follows a 503 received on the attempt it names.    *)
C5_SleepSquareOfTenTimes ==
    /\ \A j \in 1..Len(sleeps) :
          /\ sleeps[j].ms = (sleeps[j].attempt + 1) * (sleeps[j].attempt + 1) * 100
          /\ GotStatus(sleeps[j].attempt + 1, 503)
    /\ \A i \in 1..Len(attempts) :
          (GotStatus(i, 503) /\ (i < Len(attempts) \/ pc # "loop")) =>
              \E j \in 1..Len(sleeps) : sleeps[j].attempt = i - 1
    /\ FirstUnavailable(5) =>
          <<sleeps[1].ms, sleeps[2].ms, sleeps[3].ms, sleeps[4].ms, sleeps[5].ms>>
              = <<100, 400, 900, 1600, 2500>>

\* A 503 on attempt index 4 that follows an io.EOF: the index is the attempt's,
\* not the count of sleeps.
C5_Witness ==
    /\ Len(attempts) = 5
    /\ attempts[1].err = EOFErr
    /\ GotStatus(5, 503)
    /\ \E j \in 1..Len(sleeps) : sleeps[j].attempt = 4 /\ sleeps[j].ms = 2500

----------------------------------------------------------------------------
(* C6: every call to Request terminates and makes at most                   *)
(* MaxRequestRetries+1 attempts whatever mix of io.EOF failures and 503     *)
(* responses it meets: each io.EOF attempt and each 503 attempt consumes    *)
(* one of the permitted tries, and the counter starts at zero for every     *)
(* call.                                                                    *)

\* The attempts of the call that were retried: io.EOF or a 503.
Retried == {i \in 1..Len(attempts) : attempts[i].err = EOFErr \/ GotStatus(i, 503)}

C6_BoundedAttempts ==
    /\ [](/\ Len(attempts) <= MaxRequestRetries + 1
          /\ pc \in {"loop", "afterloop", "returned", "panic"} => tries = Cardinality(Retried)
          /\ pc = "loop" => tries = Len(attempts))
    /\ (pc = "loop") ~> (pc \in {"returned", "panic"})

\* A second call that uses all six tries, on io.EOF failures and 503 answers.
C6_Witness ==
    /\ calls = 2
    /\ pc = "afterloop"
    /\ Len(attempts) = MaxRequestRetries + 1
    /\ \E i \in Retried : attempts[i].err = EOFErr
    /\ \E i \in Retried : GotStatus(i, 503)
    /\ Retried = 1..(MaxRequestRetries + 1)

----------------------------------------------------------------------------
(* C7: when an attempt fails with a transport error other than io.EOF,      *)
(* Request makes no further attempt and no backoff sleep and returns        *)
(* exactly that error, not a mapped one, however many tries remain.         *)
C7_TransportErrorAborts ==
    \A i \in 1..Len(attempts) :
        (attempts[i].err # NilErr /\ attempts[i].err # EOFErr) =>
            /\ i = Len(attempts)
            /\ pc \in {"returned", "done"}
            /\ \A j \in 1..Len(sleeps) : sleeps[j].attempt < i - 1
            /\ err = attempts[i].err
            /\ err.kind # "resErr"
            /\ response = 0
            /\ pc = "done" => retErr = attempts[i].err

\* The error on the second attempt, after a 503, with four tries left.
C7_Witness ==
    /\ pc = "done"
    /\ Len(attempts) = 2
    /\ GotStatus(1, 503)
    /\ attempts[2].err = NetErr
    /\ retErr = NetErr

----------------------------------------------------------------------------
(* C8: for a response with a non-200 status whose body is a JSON object     *)
(* with a non-empty string msg, the error's message is the status line,     *)
(* then ": ", then msg; for 404 with {"msg":"Queue not found"} it is        *)
(* "404 Not Found: Queue not found", and ErrQueueNotFound is true of that   *)
(* error and false of an error with any other message.                      *)

\* The final response of the call, once Request has mapped it.
Mapped == pc \in {"returned", "done"} /\ response # 0

FinalStatus == responses[response].StatusCode

FinalText == responses[response].Body.text

C8_StatusLineAndMsg ==
    /\ \A code \in Statuses \ {200} : \A msg \in {"Queue not found", "Queue not empty"} :
          (Mapped /\ FinalStatus = code /\ FinalText = "{\"msg\":\"" \o msg \o "\"}") =>
              err.error = StatusLine(code) \o ": " \o msg
    /\ (Mapped /\ FinalStatus = 404 /\ FinalText = "{\"msg\":\"Queue not found\"}") =>
          /\ err.error = "404 Not Found: Queue not found"
          /\ ErrQueueNotFound(err)
    /\ (Mapped /\ err # NilErr /\ ~(FinalStatus = 404 /\ FinalText = "{\"msg\":\"Queue not found\"}")) =>
          /\ err.error # "404 Not Found: Queue not found"
          /\ ~ErrQueueNotFound(err)
    /\ (pc \in {"returned", "done"} /\ response = 0 /\ err # NilErr) => ~ErrQueueNotFound(err)

C8_Witness ==
    /\ pc = "done"
    /\ response # 0
    /\ FinalStatus = 404
    /\ FinalText = BodyQueueNotFound
    /\ ErrQueueNotFound(retErr)

C8_WitnessOtherStatus ==
    /\ pc = "done"
    /\ response # 0
    /\ FinalStatus = 503
    /\ FinalText = BodyQueueNotFound \/ FinalText = BodyEmptyMsg
    /\ ~ErrQueueNotFound(retErr)

----------------------------------------------------------------------------
(* C9: for a non-success response whose body decodes as JSON but whose msg  *)
(* is empty (the key absent, or present with the empty string), the error   *)
(* is the generic "<status line>: Unknown API Response".                    *)
C9_EmptyMsgIsUnknownResponse ==
    (/\ Mapped
     /\ FinalStatus # 200
     /\ JSONDecode(FinalText).ok
     /\ \/ ~HasKey(JSONDecode(FinalText).obj, "msg")
        \/ Lookup(JSONDecode(FinalText).obj, "msg") = JStr("")) =>
        err.error = StatusLine(FinalStatus) \o ": Unknown API Response"

----------------------------------------------------------------------------
(* C10: ResponseAsError returns nil if and only if the status code is 200   *)
(* (201 and every other status give a non-nil error), and every non-nil     *)
(* error exposes through Response() the response that was classified, so    *)
(* its status code and status line are recoverable from the error.          *)
C10_NilOnlyFor200 ==
    Mapped =>
        /\ (err = NilErr) <=> (FinalStatus = 200)
        /\ err # NilErr =>
              /\ err.kind = "resErr"
              /\ err.response = response
              /\ responses[err.response].StatusCode = FinalStatus
              /\ BeginsWith(err.error, StatusLine(responses[err.response].StatusCode))

C10_Witness ==
    /\ pc = "returned"
    /\ response # 0
    /\ FinalStatus = 201
    /\ err.kind = "resErr"
    /\ err.response = response

----------------------------------------------------------------------------
(* C11: when the final response maps to an error, or a transport error is   *)
(* returned, Req returns that error without decoding anything into out:     *)
(* the out value after the call is exactly what it was before the call.     *)
C11_OutUntouchedOnError ==
    (pc = "done" /\ err.kind \in {"resErr", "net"}) =>
        /\ outVal = outBefore
        /\ retErr = err

\* A mapped error whose body is a JSON object that a decoding would have put
\* into a target that already held something else.
C11_Witness ==
    /\ pc = "done"
    /\ retErr.kind = "resErr"
    /\ outGiven
    /\ outBefore # {}
    /\ FinalText = BodyQueueNotFound
    /\ outVal = outBefore

C11_WitnessTransport ==
    /\ pc = "done"
    /\ retErr = NetErr
    /\ outGiven
    /\ outBefore # {}
    /\ Len(responses) > 0

----------------------------------------------------------------------------
(* C19: backoff sleeps occur only between attempts: in every call the       *)
(* number of backoff sleeps equals the number of attempts made after a 503  *)
(* response, so no sleep follows the final permitted attempt before the     *)
(* mapped error is returned.                                                *)

\* The attempts that were made after an attempt that received a 503.
AfterUnavailable == {i \in 2..Len(attempts) : GotStatus(i - 1, 503)}

C19_SleepsOnlyBetweenAttempts ==
    (pc \in {"returned", "done", "panic"}) =>
        /\ Len(sleeps) = Cardinality(AfterUnavailable)
        /\ \A j \in 1..Len(sleeps) : sleeps[j].attempt + 1 < Len(attempts)

----------------------------------------------------------------------------
(* C20: when Req returns, the body of every response received during the    *)
(* call has been closed, each 503 response that was set aside for a retry   *)
(* included.                                                                *)
C20_EveryBodyClosed ==
    pc = "done" => \A i \in 1..Len(responses) : responses[i].Body.closed

----------------------------------------------------------------------------
(* C12: in the executor variant that also accepts 201, when the final       *)
(* response has a non-success status, or an attempt fails with a non-EOF    *)
(* transport error, the error is propagated to Req's caller as Req's        *)
(* returned error value, with Req completing normally.                      *)

\* The call's attempts are over and the last one (i) received a status that
\* is neither 200 nor 201.
FinalNonSuccess(i) ==
    /\ i = Len(attempts)
    /\ pc \in {"afterloop", "returned", "done", "panic"}
    /\ attempts[i].resp # 0
    /\ responses[attempts[i].resp].StatusCode \notin {200, 201}

C12_VariantPropagatesError ==
    \A i \in 1..Len(attempts) :
        (attempts[i].err = NetErr \/ FinalNonSuccess(i)) =>
            /\ pc # "panic"
            /\ pc = "done" => (retErr # NilErr /\ retErr = err)

----------------------------------------------------------------------------
(* Helpers for the claims about the queue client *)

\* The operation o has returned to its caller.
Returned(o) == op = o /\ pc = "opdone"

\* The operation's last request was answered 200 by the service.
Answered == response # 0 /\ FinalStatus = StatusOK

\* The list the service sent under key in that answer.
ServerList(key) == (CHOOSE e \in ReplyTable : e.key = key /\ e.text = FinalText).l

----------------------------------------------------------------------------
(* C13: PushMessage returns the first id of the server's id list with a nil *)
(* error when the list is non-empty; when the push request succeeds but the *)
(* server returns zero ids it returns the empty id with the error "didn't   *)
(* receive message ID for pushing message"; when the request fails it       *)
(* returns the empty id and that request error.                             *)
C13_PushMessageResult ==
    Returned("PushMessage") =>
        /\ (retErr = NilErr /\ ServerList("ids") # <<>>) =>
              /\ opResult.id = ServerList("ids")[1]
              /\ opResult.err = NilErr
        /\ (retErr = NilErr /\ ServerList("ids") = <<>>) =>
              /\ opResult.id = ""
              /\ opResult.err.error = "didn't receive message ID for pushing message"
        /\ retErr # NilErr =>
              /\ opResult.id = ""
              /\ opResult.err = retErr

C13_Witness ==
    /\ Returned("PushMessage")
    /\ Answered
    /\ ServerList("ids") = <<>>
    /\ opResult.err.error = "didn't receive message ID for pushing message"

C13_WitnessFirstId ==
    /\ Returned("PushMessage")
    /\ Answered
    /\ ServerList("ids") = <<"id-b", "id-a">>
    /\ opResult.id = "id-b"

C13_WitnessRequestError ==
    /\ Returned("PushMessage")
    /\ retErr.kind = "resErr"
    /\ opResult.err = retErr

----------------------------------------------------------------------------
(* C14: for every N >= 1 and bodies b1..bN, PushStrings sends a single push *)
(* request whose messages list has exactly N entries, entry i carrying body *)
(* bi in input order, and returns the server's ids list unchanged (same     *)
(* length, same order); so against a server that assigns one id per message *)
(* in request order the returned list has length N and its i-th id belongs  *)
(* to bi.                                                                   *)

\* The answer of a service that assigns one id per message, in request order.
OneIdPerMessage == [i \in 1..Len(reqIn.messages) |-> IdOf(reqIn.messages[i])]

C14_PushStringsIds ==
    (op = "PushStrings" /\ Len(args) >= 1) =>
        /\ queries = 1
        /\ Len(reqIn.messages) = Len(args)
        /\ \A i \in 1..Len(args) : reqIn.messages[i] = args[i]
        /\ (pc = "opdone" /\ Answered) =>
              /\ opResult.ids = ServerList("ids")
              /\ opResult.err = NilErr
        /\ (pc = "opdone" /\ Answered /\ ServerList("ids") = OneIdPerMessage) =>
              /\ Len(opResult.ids) = Len(args)
              /\ \A i \in 1..Len(args) : opResult.ids[i] = IdOf(args[i])

C14_Witness ==
    /\ Returned("PushStrings")
    /\ args = <<"b", "a">>
    /\ Answered
    /\ opResult.ids = <<"id-b", "id-a">>

\* The service answers with fewer ids than messages: returned as it is.
C14_WitnessOtherList ==
    /\ Returned("PushStrings")
    /\ args = <<"a", "b">>
    /\ Answered
    /\ opResult.ids = <<"id-b">>

----------------------------------------------------------------------------
(* C15: Reserve (and its alias Get) returns a nil message together with a   *)
(* nil error when the reservation request succeeds but yields zero          *)
(* messages; it returns a non-nil message only when at least one message    *)
(* was returned, and then it is the first returned message.                 *)
C15_ReserveFirstOrNil ==
    Returned("Reserve") =>
        /\ (Answered /\ ServerList("messages") = <<>>) =>
              /\ opResult.message = <<>>
              /\ opResult.err = NilErr
        /\ opResult.message # <<>> =>
              /\ Answered
              /\ ServerList("messages") # <<>>
              /\ opResult.message = <<ServerList("messages")[1]>>

C15_Witness ==
    /\ Returned("Reserve")
    /\ Answered
    /\ ServerList("messages") = <<>>
    /\ opResult.message = <<>>
    /\ opResult.err = NilErr

C15_WitnessFirst ==
    /\ Returned("Reserve")
    /\ Answered
    /\ ServerList("messages") = <<"m2", "m1">>
    /\ opResult.message = <<"m2">>

----------------------------------------------------------------------------
(* C16: after a successful Touch on a Message value, the Message holds the  *)
(* new reservation id returned by the server, so a second Touch in          *)
(* succession on the same Message value sends the first touch's new id and  *)
(* succeeds against a server that issues a fresh reservation id on every    *)
(* touch and invalidates the previous one; a request that reuses the        *)
(* original pre-touch id after a successful touch fails.                    *)
C16_TouchCarriesNewId ==
    /\ (Returned("Touch") /\ opResult.err = NilErr) =>
          /\ m.ReservationId = touches[Len(touches)].got
          /\ m.ReservationId = ResId(srv)
          /\ m.ReservationId # touches[Len(touches)].sent
    /\ \A i \in 2..Len(touches) :
          (touches[i].op = "Touch" /\ touches[i - 1].op = "Touch" /\ touches[i - 1].outcome = "ok") =>
              /\ touches[i].sent = touches[i - 1].got
              /\ touches[i].outcome # "refused"
    /\ \A i \in 1..Len(touches) : \A j \in 1..(i - 1) :
          (touches[j].outcome = "ok" /\ touches[i].sent = touches[j].sent) =>
              touches[i].outcome # "ok"

\* Two touches in succession on the Message, both answered with a new id.
C16_Witness ==
    /\ Returned("Touch")
    /\ Len(touches) = 2
    /\ touches[1].op = "Touch" /\ touches[1].outcome = "ok"
    /\ touches[2].op = "Touch" /\ touches[2].outcome = "ok"
    /\ touches[2].sent = ResId(2)
    /\ m.ReservationId = ResId(3)

\* A successful touch, then a request with the id held before it.
C16_WitnessReuse ==
    /\ Returned("TouchMessage")
    /\ Len(touches) = 2
    /\ touches[1].op = "Touch" /\ touches[1].outcome = "ok"
    /\ touches[2].sent = ResId(1)
    /\ touches[2].outcome = "refused"

----------------------------------------------------------------------------
(* C17: whenever MessageSubscribersPollN(msgId, n) returns with a nil       *)
(* error, the returned subscriber list is the result of its most recent     *)
(* status query, has at least n entries, and contains no subscriber whose   *)
(* status is "queued"; it never returns a nil error while fewer than n      *)
(* subscribers are reported or any reported subscriber is still queued.     *)
C17_PollSuccessCondition ==
    (Returned("Poll") /\ opResult.err = NilErr) =>
        /\ Answered
        /\ opResult.subs = ServerList("subscribers")
        /\ Len(opResult.subs) >= pollN
        /\ \A i \in 1..Len(opResult.subs) : opResult.subs[i] # "queued"

\* The second query reports too few subscribers, the third reports enough.
C17_Witness ==
    /\ Returned("Poll")
    /\ opResult.err = NilErr
    /\ pollN = 2
    /\ queries = 3
    /\ opResult.subs = <<"deleted", "deleted">>

----------------------------------------------------------------------------
(* C18: MessageSubscribersPollN stops polling as soon as any status query   *)
(* it issues returns an error: it returns that error and issues no further  *)
(* query. This holds for every query of the call, the first one it issues   *)
(* included.                                                                *)
C18_PollStopsAtFirstError ==
    (op = "Poll" /\ pollErrAt # 0) =>
        /\ queries = pollErrAt
        /\ pc = "opdone"
        /\ opResult.err = pollErr

----------------------------------------------------------------------------
(* C21: if a Touch or TouchFor call on a Message fails (the touch request   *)
(* returns an error), the Message's Id and ReservationId are left           *)
(* unchanged, so the caller still holds the reservation id it had before    *)
(* the failed call; ReservationId changes only when the touch succeeded,    *)
(* and then to the id the server returned.                                  *)
C21_FailedTouchKeepsId ==
    Returned("Touch") =>
        LET t == touches[Len(touches)] IN
        /\ m.Id = "m1"
        /\ opResult.err # NilErr => m.ReservationId = t.sent
        /\ m.ReservationId # t.sent => (opResult.err = NilErr /\ m.ReservationId = t.got)

----------------------------------------------------------------------------
(* C22: PushString returns an error value, rather than crashing, when the   *)
(* push request succeeds but the server returns an empty id list; it        *)
(* returns the first id with a nil error only when at least one id was      *)
(* returned.                                                                *)
C22_PushStringEmptyIdList ==
    (op = "PushString" /\ pc \in {"opdone", "panic"}) =>
        /\ (Answered /\ ServerList("ids") = <<>>) =>
              /\ pc = "opdone"
              /\ opResult.err # NilErr
        /\ (pc = "opdone" /\ opResult.err = NilErr) =>
              /\ Answered
              /\ ServerList("ids") # <<>>
              /\ opResult.id = ServerList("ids")[1]

====
